---- MODULE Spec2Model ----
(***************************************************************************)
(* YDBStorage (aiogram FSM storage on YDB): the table, the payload codec,  *)
(* the key derivation, the retried query executor and the public          *)
(* coroutines set_state / get_state / set_data / get_data / update_data.  *)
(* A coroutine is cut at its await points: session checkout, prepare and  *)
(* execute of every executor attempt.                                      *)
(***************************************************************************)
EXTENDS Integers, Sequences, FiniteSets, TLC

(***************************************************************************)
(* Bounds of the model.                                                    *)
(***************************************************************************)
\* public calls started in one behaviour of a single caller
MaxCalls == 2
\* public calls started in one behaviour of concurrent callers
MaxConcurrentCalls == 2
\* public calls started in one behaviour checked for termination
MaxLiveCalls == 1
\* retries retry_operation allows after the first attempt
MaxRetries == 1
\* sessions the pool can hand out at the same time
PoolSize == 1

Tasks == {"t1", "t2"}

(***************************************************************************)
(* Python values.  Every value carries its type, so that a list is not a   *)
(* tuple and an empty string is not None.                                  *)
(***************************************************************************)
None == [ty |-> "none"]
PyInt(n) == [ty |-> "int", v |-> n]
PyStr(s) == [ty |-> "str", s |-> s]
PyList(es) == [ty |-> "list", elems |-> es]
PyTuple(es) == [ty |-> "tuple", elems |-> es]
PyDict(f) == [ty |-> "dict", items |-> f]
\* an object json.dumps has no encoding for (pickle has)
PyObject == [ty |-> "object"]
\* aiogram's State, whose .state is the label
StateObj(label) == [ty |-> "State", state |-> label]
\* the str json.dumps returns, named by the JSON document it spells
JsonText(doc) == [ty |-> "jsontext", doc |-> doc]
\* the bytes pickle.dumps returns, named by the object graph they encode
PickleBytes(graph) == [ty |-> "bytes", graph |-> graph]

\* what an operator yields in place of a value when the Python call raises
Raise == [ty |-> "raise"]

EmptyDict == PyDict([k \in {} |-> None])

\* Python truthiness (bool(v)), as `x if x else y` and `if not x` use it
Truthy(v) ==
  CASE v.ty = "none" -> FALSE
    [] v.ty = "int" -> v.v # 0
    [] v.ty = "str" -> v.s # ""
    [] v.ty = "list" -> v.elems # <<>>
    [] v.ty = "tuple" -> v.elems # <<>>
    [] v.ty = "dict" -> DOMAIN v.items # {}
    [] OTHER -> TRUE

(***************************************************************************)
(* json.dumps / json.loads.  dumps writes a tuple as an array and has no   *)
(* encoding for an arbitrary object; loads reads an array as a list.       *)
(***************************************************************************)
RECURSIVE JsonEncodable(_)
JsonEncodable(v) ==
  CASE v.ty \in {"none", "int", "str"} -> TRUE
    [] v.ty \in {"list", "tuple"} ->
         \A i \in 1..Len(v.elems) : JsonEncodable(v.elems[i])
    [] v.ty = "dict" -> \A k \in DOMAIN v.items : JsonEncodable(v.items[k])
    [] OTHER -> FALSE

RECURSIVE ToJson(_)
ToJson(v) ==
  CASE v.ty \in {"list", "tuple"} ->
         PyList([i \in 1..Len(v.elems) |-> ToJson(v.elems[i])])
    [] v.ty = "dict" -> PyDict([k \in DOMAIN v.items |-> ToJson(v.items[k])])
    [] OTHER -> v

\* json.dumps(obj): the text, or Raise (TypeError)
json_dumps(obj) == IF JsonEncodable(obj) THEN JsonText(ToJson(obj)) ELSE Raise

\* json.loads(s): the value, or Raise (TypeError, ValueError)
json_loads(s) == IF s.ty = "jsontext" THEN s.doc ELSE Raise

\* pickle.dumps(obj)
pickle_dumps(obj) == PickleBytes(obj)

\* pickle.loads(b): a str is not bytes-like (TypeError)
pickle_loads(b) == IF b.ty = "bytes" THEN b.graph ELSE Raise

\* YDBStorage._ser: None when the encoder raised
_ser(serializing_method, obj) ==
  IF serializing_method = "pickle"
  THEN pickle_dumps(obj)
  ELSE IF json_dumps(obj) = Raise THEN None ELSE json_dumps(obj)

\* YDBStorage._dsr: None for a falsy column and when the decoder raised
_dsr(serializing_method, obj) ==
  IF serializing_method = "pickle"
  THEN IF Truthy(obj)
       THEN IF pickle_loads(obj) = Raise THEN None ELSE pickle_loads(obj)
       ELSE None
  ELSE IF Truthy(obj)
       THEN IF json_loads(obj) = Raise THEN None ELSE json_loads(obj)
       ELSE None

(***************************************************************************)
(* YDBStorage._key: str(bot_id) + ":" + str(chat_id) + ":" + str(user_id), *)
(* a string being the sequence of its characters.                          *)
(***************************************************************************)
DigitChar == <<"0", "1", "2", "3", "4", "5", "6", "7", "8", "9">>

RECURSIVE Digits(_)
Digits(n) ==
  IF n < 10 THEN <<DigitChar[n + 1]>>
  ELSE Digits(n \div 10) \o <<DigitChar[(n % 10) + 1]>>

\* Python's str(n) of an int
str(n) == IF n < 0 THEN <<"-">> \o Digits(-n) ELSE Digits(n)

\* _key without the separators
_key_joined(key) == str(key.bot_id) \o str(key.chat_id) \o str(key.user_id)

_key(key) ==
  str(key.bot_id) \o <<":">> \o str(key.chat_id) \o <<":">> \o str(key.user_id)

StorageKey(b, c, u) == [bot_id |-> b, chat_id |-> c, user_id |-> u]

(***************************************************************************)
(* The statements the store issues, on a table that maps each key with a   *)
(* row to [state, data]; a NULL column reads as None.                      *)
(***************************************************************************)
\* UpsertState as a REPLACE INTO, which resets the columns not named
ReplaceState(tbl, k, s) ==
  [x \in DOMAIN tbl \cup {k} |->
     IF x = k THEN [state |-> s, data |-> None] ELSE tbl[x]]

\* UPSERT INTO t (key, state) VALUES ($k, $s): the columns not named keep
\* their value in a row that exists and are NULL in a row the statement makes
UpsertState(tbl, k, s) ==
  [x \in DOMAIN tbl \cup {k} |->
     IF x = k
     THEN [state |-> s, data |-> IF k \in DOMAIN tbl THEN tbl[k].data ELSE None]
     ELSE tbl[x]]

\* UpsertData as a statement that depends on the current value: it clears
\* the column when the column already holds the value
UpsertDataToggle(tbl, k, d) ==
  [x \in DOMAIN tbl \cup {k} |->
     IF x = k
     THEN [state |-> IF k \in DOMAIN tbl THEN tbl[k].state ELSE None,
           data |-> IF k \in DOMAIN tbl /\ tbl[k].data = d THEN None ELSE d]
     ELSE tbl[x]]

\* UpsertData as an INSERT that leaves a row that exists alone
InsertData(tbl, k, d) ==
  IF k \in DOMAIN tbl /\ tbl[k].data # None
  THEN tbl
  ELSE [x \in DOMAIN tbl \cup {k} |->
          IF x = k
          THEN [state |-> IF k \in DOMAIN tbl THEN tbl[k].state ELSE None,
                data |-> d]
          ELSE tbl[x]]

\* UPSERT INTO t (key, data) VALUES ($k, $d)
UpsertData(tbl, k, d) ==
  [x \in DOMAIN tbl \cup {k} |->
     IF x = k
     THEN [state |-> IF k \in DOMAIN tbl THEN tbl[k].state ELSE None, data |-> d]
     ELSE tbl[x]]

\* SELECT state FROM t WHERE key = $k: result[0].rows
SelectState(tbl, k) ==
  IF k \in DOMAIN tbl THEN <<[state |-> tbl[k].state]>> ELSE <<>>

\* SelectData without its WHERE clause: the rows of every key
SelectDataAll(tbl, k) ==
  IF DOMAIN tbl # {}
  THEN <<[data |-> tbl[CHOOSE x \in DOMAIN tbl : TRUE].data]>>
  ELSE <<>>

\* SELECT data FROM t WHERE key = $k: result[0].rows
SelectData(tbl, k) ==
  IF k \in DOMAIN tbl THEN <<[data |-> tbl[k].data]>> ELSE <<>>

\* DECLARE $s AS Utf8 / DECLARE $d AS Utf8: the parameter must be a text
\* string; None and bytes are no Utf8 value and the execute call raises
Utf8(v) == v.ty \in {"str", "jsontext"}

ValidParams(query, params) ==
  CASE query \in {"upsert_state", "upsert_data"} -> Utf8(params.v)
    [] OTHER -> TRUE

\* the table after the statement committed
Apply(query, params, tbl) ==
  CASE query = "upsert_state" -> UpsertState(tbl, params.k, params.v)
    [] query = "upsert_data" -> UpsertData(tbl, params.k, params.v)
    [] OTHER -> tbl

\* the rows the statement returns
Rows(query, params, tbl) ==
  CASE query = "select_state" -> SelectState(tbl, params.k)
    [] query = "select_data" -> SelectData(tbl, params.k)
    [] OTHER -> <<>>

(***************************************************************************)
(* Inputs of the calls.                                                    *)
(***************************************************************************)
\* two contexts whose ids spell the same digits in a different split
Contexts == {StorageKey(1, 11, 1), StorageKey(11, 1, 1)}

\* serializing_method as passed to the constructor
Methods == {"json", "pickle", "yaml"}

\* table_name as passed to the constructor
TableNames == {"fsm_storage", "fsm"}

\* state as passed to set_state: None, a label, a State object
StateArgs == {None, PyStr("foo"), StateObj(PyStr("bar"))}

DictA1 == PyDict([k \in {"a"} |-> PyInt(1)])
DictB2 == PyDict([k \in {"b"} |-> PyInt(2)])
\* a mapping with a tuple in it
DictTuple == PyDict([k \in {"a"} |-> PyTuple(<<PyInt(1)>>)])
\* a mapping with an object json cannot encode
DictObject == PyDict([k \in {"b"} |-> PyObject])
ListOne == PyList(<<PyInt(1)>>)

\* data as passed to set_data
Payloads == {DictA1, DictB2, DictTuple, DictObject, ListOne}

\* data as passed to update_data
Partials == {DictB2, DictTuple, DictObject}

(***************************************************************************)
(* State.                                                                  *)
(***************************************************************************)
VARIABLES
  table,        \* the rows of the table: key string -> [state, data]
  tableExists,  \* whether the CREATE TABLE has been applied
  store,        \* the YDBStorage object: serializing_method, table_name
  task,         \* each caller: the coroutine it runs and where it stands
  held,         \* the callers holding a session of the pool
  callers,      \* the callers that make calls in this run
  left,         \* calls that may still be started
  lastState,    \* per context: the state argument of the last applied set_state
  lastData,     \* per context: the payload of the last applied data write,
                \* who wrote it under which codec mode, and the payload before
  written       \* the contexts a write call was ever made for

vars == <<table, tableExists, store, task, held, callers, left, lastState, lastData, written>>

NoKey == StorageKey(0, 0, 0)
NoParams == [k |-> <<>>, v |-> None]
Unset == [ty |-> "unset"]
NoRow == [state |-> Unset, data |-> Unset]
NoSeen == [row |-> NoRow, ws |-> Unset, wd |-> Unset]

IdleTask ==
  [pc |-> "idle", op |-> "none", key |-> NoKey, arg |-> None,
   phase |-> "none", query |-> "none", params |-> NoParams, attempt |-> 0,
   cur |-> None, ret |-> None, exc |-> "none", failed |-> FALSE,
   rfailed |-> FALSE, seen |-> NoSeen, alone |-> FALSE,
   fault |-> "none", applied |-> FALSE, pre |-> NoRow]

NewStore == [ready |-> FALSE, serializing_method |-> "unset", table_name |-> "unset"]

\* a coroutine begins: the caller runs nothing else
CanCall(t) ==
  /\ task[t].pc \in {"idle", "done"}
  /\ store.ready
  /\ t \in callers
  /\ left > 0

\* the task record of a call that reaches its first _execute_query; pre is
\* the row of its key when the call begins
Begin(op, key, arg, phase, query, params) ==
  [IdleTask EXCEPT !.pc = "checkout", !.op = op, !.key = key,
                   !.arg = arg, !.phase = phase, !.query = query,
                   !.params = params,
                   !.pre = IF _key(key) \in DOMAIN table
                           THEN table[_key(key)] ELSE NoRow]

\* the state before any store is constructed: no table yet, or the empty
\* table an earlier run created
Unconstructed(cs, n) ==
  /\ table = [k \in {} |-> NoRow]
  /\ tableExists \in BOOLEAN
  /\ store = NewStore
  /\ task = [t \in Tasks |-> IdleTask]
  /\ held = {}
  /\ callers = cs
  /\ left = n
  /\ lastState = [c \in Contexts |-> Unset]
  /\ lastData = [c \in Contexts |-> Unset]
  /\ written = {}

InitNew == Unconstructed({"t1"}, MaxCalls)

(***************************************************************************)
(* The code of each coroutine between two awaits.                          *)
(***************************************************************************)
\* NormalizeMethod that keeps the method as it was passed
NormalizeMethodKeep(m) == m

\* __init__: any method but "pickle" and "json" becomes "json"
NormalizeMethod(m) == IF m # "pickle" /\ m # "json" THEN "json" ELSE m

\* the table an earlier run of the program in text mode left behind when it
\* did set_data(c, {"a": 1}) for one context c
EarlierContext == StorageKey(1, 11, 1)
EarlierTable ==
  UpsertData([k \in {} |-> NoRow], _key(EarlierContext), _ser("json", DictA1))

\* the state after construction: the codec mode is the normalized method;
\* the table is new, or an earlier run (in text mode) has written to it
Constructed(cs, n) ==
  /\ \E m \in Methods :
       store = [ready |-> TRUE, serializing_method |-> NormalizeMethod(m),
                table_name |-> "fsm_storage"]
  /\ tableExists = TRUE
  /\ task = [t \in Tasks |-> IdleTask]
  /\ held = {}
  /\ callers = cs
  /\ left = n
  /\ lastState = [c \in Contexts |-> Unset]
  /\ \/ /\ table = [k \in {} |-> NoRow]
        /\ lastData = [c \in Contexts |-> Unset]
        /\ written = {}
     \/ /\ table = EarlierTable
        /\ lastData = [c \in Contexts |->
                         IF c = EarlierContext
                         THEN [method |-> "json", op |-> "set_data",
                               by |-> "earlier", payload |-> DictA1,
                               prev |-> Unset]
                         ELSE Unset]
        /\ written = {EarlierContext}

\* one caller, which awaits each call before it makes the next
Init == Constructed({"t1"}, MaxCalls)

\* callers whose calls run concurrently, on a store that is constructed or
\* that one of them constructs first
InitConcurrent ==
  \/ Constructed(Tasks, MaxConcurrentCalls)
  \/ Unconstructed(Tasks, MaxConcurrentCalls)

\* s_state with the branches of its conditional swapped
s_state_swapped(state) ==
  LET label == IF state.ty = "State" THEN state.state ELSE state
  IN IF Truthy(label) THEN PyStr("") ELSE label

\* set_state: state.state of a State, and "" for a falsy label
s_state(state) ==
  LET label == IF state.ty = "State" THEN state.state ELSE state
  IN IF Truthy(label) THEN label ELSE PyStr("")

\* get_state: result[0].rows[0].get("state") if result[0].rows else None;
\* the except branch falls off the end of the function
get_state_return(ok, rows) ==
  IF ok THEN IF rows # <<>> THEN rows[1].state ELSE None ELSE None

\* get_data_return without the call of _dsr
get_data_return_raw(method, ok, rows) ==
  IF ok THEN IF rows # <<>> THEN rows[1].data ELSE None ELSE None

\* get_data: self._dsr(result[0].rows[0].get("data")) if result[0].rows else None
get_data_return(method, ok, rows) ==
  IF ok THEN IF rows # <<>> THEN _dsr(method, rows[1].data) ELSE None ELSE None

\* dict_update with the operands swapped: current's values win
dict_update_swapped(current, data) ==
  PyDict([k \in DOMAIN current.items \cup DOMAIN data.items |->
            IF k \in DOMAIN current.items THEN current.items[k] ELSE data.items[k]])

\* dict.update: the keys of data take data's values
dict_update(current, data) ==
  PyDict([k \in DOMAIN current.items \cup DOMAIN data.items |->
            IF k \in DOMAIN data.items THEN data.items[k] ELSE current.items[k]])

\* update_data after its get_data returned: the merge and the set_data it
\* starts, or the AttributeError of a value without .update
update_data_merge(r, method, got, ok) ==
  LET current_data == IF ~Truthy(got) THEN EmptyDict ELSE got
  IN IF current_data.ty # "dict"
     THEN [r EXCEPT !.pc = "done", !.exc = "AttributeError", !.failed = ~ok,
                    !.rfailed = ~ok, !.cur = current_data]
     ELSE [r EXCEPT !.pc = "checkout", !.phase = "write", !.attempt = 0,
                    !.failed = ~ok, !.rfailed = ~ok, !.applied = FALSE,
                    !.cur = dict_update(current_data, r.arg),
                    !.query = "upsert_data",
                    !.params = [k |-> _key(r.key),
                                v |-> _ser(method, dict_update(current_data, r.arg))]]

\* the caller's record when its _execute_query returned rows (ok) or raised
FinishCall(r, method, ok, rows) ==
  CASE r.op = "get_state" ->
         [r EXCEPT !.pc = "done", !.failed = ~ok,
                   !.ret = get_state_return(ok, rows)]
    [] r.op = "get_data" ->
         [r EXCEPT !.pc = "done", !.failed = ~ok,
                   !.ret = get_data_return(method, ok, rows)]
    [] r.op = "update_data" /\ r.phase = "read" ->
         update_data_merge(r, method, get_data_return(method, ok, rows), ok)
    [] r.op = "update_data" /\ r.phase = "write" ->
         [r EXCEPT !.pc = "done", !.failed = r.failed \/ ~ok, !.ret = r.cur]
    [] OTHER -> [r EXCEPT !.pc = "done", !.failed = ~ok]

\* AfterFault that does not count the attempts
AfterFaultUncounted(r, method, kind) ==
  IF kind = "retryable"
  THEN [r EXCEPT !.pc = "checkout", !.fault = kind]
  ELSE FinishCall([r EXCEPT !.fault = kind], method, FALSE, <<>>)

\* AfterFault that retries after a fault of any kind
AfterFaultAnyKind(r, method, kind) ==
  IF r.attempt < MaxRetries
  THEN [r EXCEPT !.pc = "checkout", !.attempt = r.attempt + 1, !.fault = kind]
  ELSE FinishCall([r EXCEPT !.fault = kind], method, FALSE, <<>>)

\* ydb.aio.retry_operation: a retryable fault starts the next attempt while
\* retries are left; any other fault, and the last one, is raised.  fault is
\* the kind of the last fault an attempt of the call raised
AfterFault(r, method, kind) ==
  IF kind = "retryable" /\ r.attempt < MaxRetries
  THEN [r EXCEPT !.pc = "checkout", !.attempt = r.attempt + 1, !.fault = kind]
  ELSE FinishCall([r EXCEPT !.fault = kind], method, FALSE, <<>>)

\* Settle where a construction whose bootstrap failed leaves no store
SettleUnready(t, r) ==
  /\ task' = [task EXCEPT ![t] = r]
  /\ store' = IF r.op = "__init__" /\ r.pc = "done" /\ ~r.failed
              THEN [store EXCEPT !.ready = TRUE]
              ELSE store

\* the caller moves on; a finished construction leaves a usable store
Settle(t, r) ==
  /\ task' = [task EXCEPT ![t] = r]
  /\ store' = IF r.op = "__init__" /\ r.pc = "done"
              THEN [store EXCEPT !.ready = TRUE]
              ELSE store

(***************************************************************************)
(* The calls, up to their first await.                                     *)
(***************************************************************************)
\* YDBStorage(...): the settings, then asyncio.run(self._create_table()),
\* which raises at once where it cannot run (inside a running loop)
__init__(t, method, table_name, drives) ==
  /\ task[t].pc \in {"idle", "done"}
  /\ t \in callers
  /\ left > 0
  /\ store = NewStore
  /\ left' = left - 1
  /\ UNCHANGED callers
  /\ store' = [ready |-> ~drives, serializing_method |-> NormalizeMethod(method),
               table_name |-> table_name]
  /\ task' = [task EXCEPT ![t] =
                IF drives
                THEN Begin("__init__", NoKey, PyStr(method), "none",
                           "create_table", NoParams)
                ELSE [IdleTask EXCEPT !.pc = "done", !.op = "__init__",
                                      !.arg = PyStr(method), !.failed = TRUE]]
  /\ UNCHANGED <<table, tableExists, held, lastState, lastData, written>>

set_state(t, key, state) ==
  /\ CanCall(t)
  /\ left' = left - 1
  /\ UNCHANGED callers
  /\ written' = written \cup {key}
  /\ task' = [task EXCEPT ![t] =
                Begin("set_state", key, state, "none", "upsert_state",
                      [k |-> _key(key), v |-> s_state(state)])]
  /\ UNCHANGED <<table, tableExists, store, held, lastState, lastData>>

get_state(t, key) ==
  /\ CanCall(t)
  /\ left' = left - 1
  /\ UNCHANGED callers
  /\ task' = [task EXCEPT ![t] =
                Begin("get_state", key, None, "none", "select_state",
                      [k |-> _key(key), v |-> None])]
  /\ UNCHANGED <<table, tableExists, store, held, lastState, lastData, written>>

set_data(t, key, data) ==
  /\ CanCall(t)
  /\ left' = left - 1
  /\ UNCHANGED callers
  /\ written' = written \cup {key}
  /\ task' = [task EXCEPT ![t] =
                Begin("set_data", key, data, "none", "upsert_data",
                      [k |-> _key(key),
                       v |-> _ser(store.serializing_method, data)])]
  /\ UNCHANGED <<table, tableExists, store, held, lastState, lastData>>

get_data(t, key) ==
  /\ CanCall(t)
  /\ left' = left - 1
  /\ UNCHANGED callers
  /\ task' = [task EXCEPT ![t] =
                Begin("get_data", key, None, "none", "select_data",
                      [k |-> _key(key), v |-> None])]
  /\ UNCHANGED <<table, tableExists, store, held, lastState, lastData, written>>

\* update_data begins with its get_data
update_data(t, key, data) ==
  /\ CanCall(t)
  /\ left' = left - 1
  /\ UNCHANGED callers
  /\ written' = written \cup {key}
  /\ task' = [task EXCEPT ![t] =
                Begin("update_data", key, data, "read", "select_data",
                      [k |-> _key(key), v |-> None])]
  /\ UNCHANGED <<table, tableExists, store, held, lastState, lastData>>

\* close: pass
close(t) ==
  /\ CanCall(t)
  /\ left' = left - 1
  /\ UNCHANGED callers
  /\ task' = [task EXCEPT ![t] =
                [IdleTask EXCEPT !.pc = "done", !.op = "close"]]
  /\ UNCHANGED <<table, tableExists, store, held, lastState, lastData, written>>

(***************************************************************************)
(* _execute_query and _create_table: one attempt of callee is the session  *)
(* checkout, session.prepare (not for the CREATE TABLE) and the execute;   *)
(* leaving the with block gives the session back.                          *)
(***************************************************************************)
Method(t) == store.serializing_method

\* the faults an attempt can raise
FaultKinds == {"retryable", "fatal"}

\* the row and the last writes a SELECT of caller t sees
Seen(t) ==
  [row |-> IF task[t].params.k \in DOMAIN table
           THEN table[task[t].params.k] ELSE NoRow,
   ws |-> lastState[task[t].key],
   wd |-> lastData[task[t].key]]

\* the caller's record with what its statement saw when it committed
Observed(t) ==
  CASE task[t].query \in {"select_state", "select_data"} ->
         [task[t] EXCEPT !.seen = Seen(t)]
    [] task[t].op = "update_data" /\ task[t].query = "upsert_data" ->
         [task[t] EXCEPT !.alone = (Seen(t).row = task[t].seen.row)]
    [] OTHER -> task[t]

\* the statement of caller t commits
Commit(t) ==
  /\ table' = Apply(task[t].query, task[t].params, table)
  /\ tableExists' = (tableExists \/ task[t].query = "create_table")
  /\ lastState' = IF task[t].query = "upsert_state"
                  THEN [lastState EXCEPT ![task[t].key] = task[t].arg]
                  ELSE lastState
  /\ lastData' = IF task[t].query = "upsert_data"
                 THEN [lastData EXCEPT ![task[t].key] =
                         [method |-> Method(t), op |-> task[t].op, by |-> t,
                          payload |-> IF task[t].op = "update_data"
                                      THEN task[t].cur ELSE task[t].arg,
                          prev |-> IF lastData[task[t].key] = Unset THEN Unset
                                   ELSE lastData[task[t].key].payload]]
                 ELSE lastData

\* whether the backend can run the statement of caller t: a CREATE TABLE
\* of a table that exists fails, and so does any other statement without it
Runnable(t) ==
  /\ task[t].query = "create_table" <=> ~tableExists
  /\ ValidParams(task[t].query, task[t].params)

\* Checkout that goes on to prepare without a session
CheckoutNoSession(t) ==
  /\ task[t].pc = "checkout"
  /\ task' = [task EXCEPT ![t].pc =
                IF task[t].query = "create_table" THEN "execute" ELSE "prepare"]
  /\ UNCHANGED <<table, tableExists, store, held, callers, left, lastState, lastData, written>>

\* asyncio.wait_for(session_holder, timeout=5) returns a session
Checkout(t) ==
  /\ task[t].pc = "checkout"
  /\ Cardinality(held) < PoolSize
  /\ held' = held \cup {t}
  /\ task' = [task EXCEPT ![t].pc =
                IF task[t].query = "create_table" THEN "execute" ELSE "prepare"]
  /\ UNCHANGED <<table, tableExists, store, callers, left, lastState, lastData, written>>

\* the wait times out: ydb.SessionPoolEmpty, which retry_operation retries
CheckoutTimeout(t) ==
  /\ task[t].pc = "checkout"
  /\ Settle(t, AfterFault(task[t], Method(t), "retryable"))
  /\ UNCHANGED <<table, tableExists, held, callers, left, lastState, lastData, written>>

\* session.prepare(query)
Prepare(t) ==
  /\ task[t].pc = "prepare"
  /\ tableExists
  /\ task' = [task EXCEPT ![t].pc = "execute"]
  /\ UNCHANGED <<table, tableExists, store, held, callers, left, lastState, lastData, written>>

PrepareFault(t, kind) ==
  /\ task[t].pc = "prepare"
  /\ held' = held \ {t}
  /\ Settle(t, AfterFault(task[t], Method(t), kind))
  /\ UNCHANGED <<table, tableExists, callers, left, lastState, lastData, written>>

\* the transaction (or execute_scheme) runs and commits
Execute(t) ==
  /\ task[t].pc = "execute"
  /\ Runnable(t)
  /\ Commit(t)
  /\ held' = held \ {t}
  /\ Settle(t, FinishCall(Observed(t), Method(t), TRUE,
                          Rows(task[t].query, task[t].params, table)))
  /\ UNCHANGED <<callers, left, written>>

\* ExecuteFault that does not give the session back
ExecuteFaultKeeps(t, kind) ==
  /\ task[t].pc = "execute"
  /\ ~ValidParams(task[t].query, task[t].params) => kind = "fatal"
  /\ UNCHANGED held
  /\ Settle(t, AfterFault(task[t], Method(t), kind))
  /\ UNCHANGED <<table, tableExists, callers, left, lastState, lastData, written>>

\* the execute raises and nothing was committed; a parameter that is no
\* Utf8 value raises a TypeError, which is not retried
ExecuteFault(t, kind) ==
  /\ task[t].pc = "execute"
  /\ ~ValidParams(task[t].query, task[t].params) => kind = "fatal"
  /\ held' = held \ {t}
  /\ Settle(t, AfterFault(task[t], Method(t), kind))
  /\ UNCHANGED <<table, tableExists, callers, left, lastState, lastData, written>>

\* the statement committed, and the answer was lost: the execute raises
ExecuteLost(t, kind) ==
  /\ task[t].pc = "execute"
  /\ Runnable(t)
  /\ Commit(t)
  /\ held' = held \ {t}
  /\ Settle(t, AfterFault([Observed(t) EXCEPT !.applied = TRUE], Method(t), kind))
  /\ UNCHANGED <<callers, left, written>>

\* the calls on the constructed store and the steps of their executor calls
Next ==
  \/ \E t \in Tasks, k \in Contexts, s \in StateArgs :
       set_state(t, k, s)
  \/ \E t \in Tasks, k \in Contexts : get_state(t, k)
  \/ \E t \in Tasks, k \in Contexts, d \in Payloads :
       set_data(t, k, d)
  \/ \E t \in Tasks, k \in Contexts : get_data(t, k)
  \/ \E t \in Tasks, k \in Contexts, d \in Partials :
       update_data(t, k, d)
  \/ \E t \in Tasks : close(t)
  \/ \E t \in Tasks : Checkout(t)
  \/ \E t \in Tasks : CheckoutTimeout(t)
  \/ \E t \in Tasks : Prepare(t)
  \/ \E t \in Tasks, kind \in FaultKinds : PrepareFault(t, kind)
  \/ \E t \in Tasks : Execute(t)
  \/ \E t \in Tasks, kind \in FaultKinds : ExecuteFault(t, kind)
  \/ \E t \in Tasks, kind \in FaultKinds : ExecuteLost(t, kind)

Spec == Init /\ [][Next]_vars

\* the waits of an attempt are bounded: wait_for(..., timeout=5) ends the
\* checkout, the request timeout ends session.prepare, and
\* with_timeout(3).with_operation_timeout(2) ends the transaction
Timeouts(t) ==
  /\ WF_vars(CheckoutTimeout(t))
  /\ WF_vars(\E kind \in FaultKinds : PrepareFault(t, kind))
  /\ WF_vars(\E kind \in FaultKinds : ExecuteFault(t, kind))

\* one caller, as in Init
InitLive == Constructed({"t1"}, MaxLiveCalls)

SpecLive == InitLive /\ [][Next]_vars /\ \A t \in Tasks : Timeouts(t)

\* the calls of concurrent callers: all on one context
ConcurrentContexts == {EarlierContext}
ConcurrentStateArgs == {PyStr("foo")}
ConcurrentPayloads == {DictB2}
ConcurrentPartials == {DictB2, DictTuple}

NextConcurrent ==
  \/ \E t \in Tasks, m \in Methods, n \in TableNames, d \in BOOLEAN :
       __init__(t, m, n, d)
  \/ \E t \in Tasks, k \in ConcurrentContexts, s \in ConcurrentStateArgs :
       set_state(t, k, s)
  \/ \E t \in Tasks, k \in ConcurrentContexts : get_state(t, k)
  \/ \E t \in Tasks, k \in ConcurrentContexts, d \in ConcurrentPayloads :
       set_data(t, k, d)
  \/ \E t \in Tasks, k \in ConcurrentContexts : get_data(t, k)
  \/ \E t \in Tasks, k \in ConcurrentContexts, d \in ConcurrentPartials :
       update_data(t, k, d)
  \/ \E t \in Tasks : close(t)
  \/ \E t \in Tasks : Checkout(t)
  \/ \E t \in Tasks : CheckoutTimeout(t)
  \/ \E t \in Tasks : Prepare(t)
  \/ \E t \in Tasks, kind \in FaultKinds : PrepareFault(t, kind)
  \/ \E t \in Tasks : Execute(t)
  \/ \E t \in Tasks, kind \in FaultKinds : ExecuteFault(t, kind)
  \/ \E t \in Tasks, kind \in FaultKinds : ExecuteLost(t, kind)

SpecConcurrent == InitConcurrent /\ [][NextConcurrent]_vars

\* the same, from before the store is constructed
NextBoot ==
  \/ \E t \in Tasks, m \in Methods, n \in TableNames, d \in BOOLEAN :
       __init__(t, m, n, d)
  \/ Next

SpecBoot == InitNew /\ [][NextBoot]_vars

(***************************************************************************)
(* Properties.                                                             *)
(***************************************************************************)
Done(t, op) == task[t].pc = "done" /\ task[t].op = op

\* the call returned and nothing in it failed or was raised
Clean(t, op) == Done(t, op) /\ ~task[t].failed /\ task[t].exc = "none"

\* the label a set_state argument names
LabelOf(state) == IF state.ty = "State" THEN state.state ELSE state

\* the row of a context, NoRow when it has none
RowOf(c) == IF _key(c) \in DOMAIN table THEN table[_key(c)] ELSE NoRow
StateCol(c) == RowOf(c).state
DataCol(c) == RowOf(c).data

\* built of dicts, lists, strings, numbers and None only
RECURSIVE JsonNative(_)
JsonNative(v) ==
  CASE v.ty \in {"none", "int", "str"} -> TRUE
    [] v.ty = "list" -> \A i \in 1..Len(v.elems) : JsonNative(v.elems[i])
    [] v.ty = "dict" -> \A k \in DOMAIN v.items : JsonNative(v.items[k])
    [] OTHER -> FALSE

\* C1: a get_state that reads after a set_state with a non-empty label was
\* applied last for its context returns exactly that label.
C1_GetStateReturnsLabel ==
  \A t \in Tasks :
    (/\ Clean(t, "get_state")
     /\ task[t].seen.ws # Unset
     /\ Truthy(LabelOf(task[t].seen.ws)))
    => task[t].ret = LabelOf(task[t].seen.ws)

C1_Witness ==
  \E t \in Tasks :
    /\ Clean(t, "get_state")
    /\ task[t].seen.ws = StateObj(PyStr("bar"))
    /\ task[t].ret = PyStr("bar")

\* the data write a get_data saw last was made under the reader's codec mode
SameMode(t) ==
  /\ task[t].seen.wd # Unset
  /\ task[t].seen.wd.method = store.serializing_method

\* C2 (as claimed): after set_data(k, d1) then set_data(k, d2), get_data(k)
\* returns a value equal to d2, with no top-level key that is only in d1,
\* for all payloads d1, d2.
C2_SetDataReplacesAnyPayload ==
  \A t \in Tasks :
    (/\ Clean(t, "get_data")
     /\ SameMode(t)
     /\ task[t].seen.wd.op = "set_data"
     /\ task[t].seen.wd.prev # Unset)
    => task[t].ret = task[t].seen.wd.payload

\* C2 (amended): get_data(k) after set_data(k, d1), set_data(k, d2) returns
\* the JSON round trip of d2: a mapping with exactly the top-level keys of d2
\* (none that is only in d1), and a value equal to d2 when d2 is built of
\* dicts, lists, strings, numbers and None only.
C2_SetDataReplaces ==
  \A t \in Tasks :
    (/\ Clean(t, "get_data")
     /\ SameMode(t)
     /\ task[t].seen.wd.op = "set_data")
    => LET d2 == task[t].seen.wd.payload
           d1 == task[t].seen.wd.prev
       IN /\ JsonNative(d2) => task[t].ret = d2
          /\ d2.ty = "dict" =>
               /\ task[t].ret.ty = "dict"
               /\ DOMAIN task[t].ret.items = DOMAIN d2.items
               /\ d1 # Unset /\ d1.ty = "dict" =>
                    \A k \in DOMAIN d1.items \ DOMAIN d2.items :
                      k \notin DOMAIN task[t].ret.items

C2_Witness ==
  \E t \in Tasks :
    /\ Clean(t, "get_data")
    /\ SameMode(t)
    /\ task[t].seen.wd.op = "set_data"
    /\ task[t].seen.wd.prev = DictA1
    /\ task[t].seen.wd.payload = DictB2
    /\ task[t].ret = DictB2

\* the mapping stored in a row's data column, the empty mapping for none
StoredMapping(row) ==
  IF row # NoRow /\ row.data.ty = "jsontext" /\ row.data.doc.ty = "dict"
  THEN row.data.doc ELSE EmptyDict

\* r is the shallow merge of p into c
IsMerge(r, c, p) ==
  /\ r.ty = "dict"
  /\ DOMAIN r.items = DOMAIN c.items \cup DOMAIN p.items
  /\ \A k \in DOMAIN p.items : r.items[k] = p.items[k]
  /\ \A k \in DOMAIN c.items \ DOMAIN p.items : r.items[k] = c.items[k]

\* update_data(k, p) of caller t returned with no failure and its write is
\* still the last one on k, made on the row its read saw
UpdateStands(t) ==
  /\ Clean(t, "update_data")
  /\ task[t].alone
  /\ lastData[task[t].key] # Unset
  /\ lastData[task[t].key].by = t
  /\ lastData[task[t].key].op = "update_data"

\* update_data(k, p) returns the merge of p into the stored mapping
C3_ReturnsMerge ==
  \A t \in Tasks :
    Clean(t, "update_data")
    => IsMerge(task[t].ret, StoredMapping(task[t].seen.row), task[t].arg)

\* the data column of k spells the mapping update_data returned
C3_StoresMerge(t) ==
  /\ DataCol(task[t].key).ty = "jsontext"
  /\ DataCol(task[t].key).doc = task[t].ret

\* C3 (as claimed): for every partial mapping p, update_data(k, p) returns the
\* shallow merge of p into the stored mapping, stores that merge, and a
\* following get_data(k) returns the same merged mapping.
C3_UpdateDataAnyPartial ==
  /\ C3_ReturnsMerge
  /\ \A t \in Tasks : UpdateStands(t) => C3_StoresMerge(t)
  /\ \A t \in Tasks :
       (/\ Clean(t, "get_data")
        /\ SameMode(t)
        /\ task[t].seen.wd.op = "update_data")
       => task[t].ret = task[t].seen.wd.payload

\* C3 (amended): update_data(k, p) returns the shallow merge of p into the
\* stored mapping for every p; the stored value and a following get_data(k)
\* equal that merge when p is built of dicts, lists, strings, numbers and
\* None only (the store keeps the JSON encoding of the merge).
C3_UpdateData ==
  /\ C3_ReturnsMerge
  /\ \A t \in Tasks :
       UpdateStands(t) /\ JsonNative(task[t].arg) => C3_StoresMerge(t)
  /\ \A t \in Tasks :
       (/\ Clean(t, "get_data")
        /\ SameMode(t)
        /\ task[t].seen.wd.op = "update_data"
        /\ JsonNative(task[t].seen.wd.payload))
       => task[t].ret = task[t].seen.wd.payload

C3_Witness ==
  \E t \in Tasks :
    /\ Clean(t, "get_data")
    /\ SameMode(t)
    /\ task[t].seen.wd.op = "update_data"
    /\ task[t].seen.wd.prev = DictA1
    /\ task[t].ret = PyDict([k \in {"a", "b"} |->
                               IF k = "a" THEN PyInt(1) ELSE PyInt(2)])

\* the caller whose coroutine takes this step, at its execute
Executes(t) == task[t].pc = "execute" /\ task'[t] # task[t]

\* C4: the execute of set_state leaves the data column of every context as it
\* was, and the execute of set_data (update_data's write included) leaves the
\* state column of every context as it was, for a row that exists and for a
\* row the statement makes.
C4_OwnColumnOnly ==
  [][\A t \in Tasks :
       Executes(t) =>
         /\ task[t].query = "upsert_state" =>
              \A c \in Contexts : DataCol(c)' = DataCol(c) \/
                (DataCol(c) = Unset /\ DataCol(c)' = None)
         /\ task[t].query = "upsert_data" =>
              \A c \in Contexts : StateCol(c)' = StateCol(c) \/
                (StateCol(c) = Unset /\ StateCol(c)' = None)]_vars

\* a row whose state set_state wrote beside data that set_data wrote
C4_Witness ==
  \E c \in Contexts :
    /\ lastState[c] # Unset
    /\ lastData[c] # Unset
    /\ StateCol(c).ty = "str"
    /\ DataCol(c).ty = "jsontext"

\* ids a bot, a chat (negative for a group) and a user can have
Ids == {-11, -1, 1, 11, 111}
Triples == {StorageKey(b, c, u) : b \in Ids, c \in Ids, u \in Ids}

\* distinct triples have distinct keys
KeysDistinct == \A x \in Triples, y \in Triples : x # y => _key(x) # _key(y)

\* a call in flight addresses the row of the key of its context
KeyOfContext ==
  \A t \in Tasks :
    task[t].pc \in {"checkout", "prepare", "execute"} /\ task[t].op # "__init__"
    => task[t].params.k = _key(task[t].key)

\* C5: distinct (bot_id, chat_id, user_id) triples have distinct keys, every
\* statement of a call is keyed by the key of the call's triple, and no step
\* of a call on one triple changes the row (and so what get_state or
\* get_data returns) of another triple.
C5_ContextsIsolated ==
  /\ [](KeysDistinct /\ KeyOfContext)
  /\ [][\A t \in Tasks :
          task'[t] # task[t] /\ task[t].pc \notin {"idle", "done"} =>
            \A c \in Contexts \ {task[t].key} : RowOf(c)' = RowOf(c)]_vars

\* both contexts have a row, and the rows differ
C5_Witness ==
  \E c \in Contexts, d \in Contexts :
    /\ c # d
    /\ RowOf(c) # NoRow
    /\ RowOf(d) # NoRow
    /\ RowOf(c) # RowOf(d)
    /\ lastState[d] # Unset

\* C6: get_state and get_data for a context that no set_state, set_data or
\* update_data call was ever made for return None, whatever was written for
\* other contexts.
C6_NeverWrittenIsNone ==
  \A t \in Tasks :
    (Done(t, "get_state") \/ Done(t, "get_data")) /\ task[t].key \notin written
    => task[t].ret = None /\ task[t].exc = "none"

\* a read of a context never written returned while the table holds a row
C6_Witness ==
  \E t \in Tasks :
    /\ Clean(t, "get_data")
    /\ task[t].key \notin written
    /\ task[t].seen.row = NoRow
    /\ DOMAIN table # {}
    /\ task[t].ret = None

\* C7 (as claimed): get_state returns None whenever the row is missing or
\* its state column is empty or absent; so after set_state(k, None), and on
\* a row only set_data made.
C7_EmptyStateReadsNone ==
  \A t \in Tasks :
    (/\ Clean(t, "get_state")
     /\ \/ task[t].seen.row = NoRow
        \/ task[t].seen.row.state = None
        \/ task[t].seen.row.state = PyStr(""))
    => task[t].ret = None

\* C8 (as claimed): no public operation ever raises to its caller.
C8_NeverRaises == \A t \in Tasks : task[t].exc = "none"

\* C9 (as claimed): when _ser fails in set_data no session is checked out and
\* no query is prepared or executed.
C9_AbandonedBeforeQuery ==
  \A t \in Tasks :
    task[t].op = "set_data" /\ task[t].params.v = None
    => task[t].pc \notin {"prepare", "execute"} /\ t \notin held

\* what get_data returns, by what its SELECT found
C10_Returns ==
  \A t \in Tasks :
    Done(t, "get_data") =>
      /\ task[t].exc = "none"
      /\ IF \/ task[t].failed
            \/ task[t].seen.row = NoRow
            \/ task[t].seen.row.data = None
            \/ ~SameMode(t)
         THEN task[t].ret = None
         ELSE /\ task[t].seen.row.data.ty = "jsontext"
              /\ task[t].ret = task[t].seen.row.data.doc

\* C10: get_data returns None when there is no row, when the data column is
\* empty, when the executor call failed and when the stored text was written
\* under the other codec mode, and the decoded stored value in every other
\* case; no step of get_data changes the table.
C10_GetData ==
  /\ []C10_Returns
  /\ [][\A t \in Tasks :
          task'[t] # task[t] /\ task[t].op = "get_data" /\ task[t].pc # "done"
          => table' = table]_vars

\* a get_data in binary mode found text written in text mode
C10_Witness ==
  \E t \in Tasks :
    /\ Clean(t, "get_data")
    /\ store.serializing_method = "pickle"
    /\ task[t].seen.row.data.ty = "jsontext"
    /\ task[t].ret = None

\* update_data calls of t and u on one key, both returned with no failure,
\* where both reads came before either write and u wrote last: both read the
\* same row, and the row u wrote to was no longer the row u had read
Interleaved(t, u) ==
  /\ t # u
  /\ Clean(t, "update_data")
  /\ Clean(u, "update_data")
  /\ task[t].key = task[u].key
  /\ task[t].seen.row = task[u].seen.row
  /\ ~task[u].alone
  /\ lastData[task[u].key] # Unset
  /\ lastData[task[u].key].by = u

\* C11: when two update_data calls on one key interleave so that both reads
\* come before either write and both complete with no failure, each call
\* returns its own merge into the row both read, the data stored afterwards
\* is the encoding of the merge of the call that wrote last, and a top-level
\* key that only the other call's partial has is not stored.
C11_LastWriterWins ==
  \A t \in Tasks, u \in Tasks :
    Interleaved(t, u) =>
      LET c == StoredMapping(task[t].seen.row)
          k == task[u].key
      IN /\ IsMerge(task[t].ret, c, task[t].arg)
         /\ IsMerge(task[u].ret, c, task[u].arg)
         /\ DataCol(k) = _ser(store.serializing_method, task[u].ret)
         /\ \A x \in DOMAIN task[t].arg.items :
              x \notin DOMAIN task[u].arg.items \cup DOMAIN c.items
              => x \notin DOMAIN StoredMapping(RowOf(k)).items

\* update_data(k, {"b": 2}) and update_data(k, {"a": (1,)}) on a key with no
\* row: both returned, and the stored mapping has "a" only
C11_Witness ==
  \E t \in Tasks, u \in Tasks :
    /\ Interleaved(t, u)
    /\ task[t].seen.row = NoRow
    /\ task[t].arg = DictB2
    /\ task[u].arg = DictTuple
    /\ task[t].ret = DictB2
    /\ task[u].ret = DictTuple
    /\ DOMAIN StoredMapping(RowOf(task[u].key)).items = {"a"}

\* an attempt of an executor call of caller t is under way
InFlight(t) == task[t].pc \in {"checkout", "prepare", "execute"}

\* a call that makes one executor call
OneQuery(t) == task[t].op \in {"set_state", "get_state", "set_data", "get_data"}

\* C12: an executor call is attempted again only after a retryable fault
\* (a checkout that timed out is one) and never more often than the retry
\* bound allows; a call whose last attempt raised no fault succeeds, so also
\* after earlier attempts failed; a retryable fault surfaces only when the
\* bound is used up, and after a non-retryable fault no further attempt is
\* made: the executor call is over and has failed.
C12_RetryPolicy ==
  \A t \in Tasks :
    /\ task[t].attempt <= MaxRetries
    /\ InFlight(t) /\ task[t].attempt > 0 => task[t].fault = "retryable"
    /\ task[t].fault = "fatal" =>
         /\ task[t].failed
         /\ \/ task[t].pc = "done"
            \/ /\ task[t].op = "update_data"
               /\ task[t].phase = "write"
               /\ task[t].rfailed
               /\ task[t].attempt = 0
    /\ task[t].pc = "done" /\ OneQuery(t) =>
         /\ task[t].failed => task[t].fault # "none"
         /\ task[t].failed /\ task[t].fault = "retryable"
            => task[t].attempt = MaxRetries
         /\ task[t].fault = "retryable" /\ task[t].attempt < MaxRetries
            => ~task[t].failed

\* a get_data whose first attempt raised a retryable fault returned the
\* stored mapping from a later attempt
C12_Witness ==
  \E t \in Tasks :
    /\ Clean(t, "get_data")
    /\ task[t].attempt >= 1
    /\ task[t].fault = "retryable"
    /\ task[t].ret = DictA1

\* C13: every public operation eventually returns: a checkout the pool never
\* answers ends with its timeout, a prepare or a transaction the backend
\* never answers ends with its timeout, and the retry loop around them is
\* bounded, so a call that has begun is eventually done.
C13_EveryCallReturns ==
  \A t \in Tasks : InFlight(t) ~> task[t].pc = "done"

\* a get_state that never executed its query returned after the last retry
C13_Witness ==
  \E t \in Tasks :
    /\ Done(t, "get_state")
    /\ task[t].failed
    /\ task[t].fault = "retryable"
    /\ task[t].attempt = MaxRetries
    /\ task[t].seen = NoSeen
    /\ task[t].ret = None
    /\ held = {}

\* the calls a caller can make on a store
CanStartCalls(t) ==
  /\ \A k \in Contexts :
       /\ ENABLED get_state(t, k)
       /\ ENABLED get_data(t, k)
       /\ ENABLED set_state(t, k, None)
       /\ ENABLED set_data(t, k, DictA1)
       /\ ENABLED update_data(t, k, DictB2)

\* C14: construction never raises and leaves a usable store, also when the
\* table bootstrap failed (the table exists already, a fault of the backend,
\* checkout timeouts, or asyncio.run could not run the bootstrap): once
\* __init__ is done the store is ready with a valid codec mode, and a caller
\* with calls left can start every set/get operation, which goes to the
\* executor.
C14_ConstructionCompletes ==
  \A t \in Tasks :
    /\ task[t].op = "__init__" => task[t].exc = "none"
    /\ Done(t, "__init__") =>
         /\ store.ready
         /\ store.serializing_method \in {"json", "pickle"}
         /\ store.table_name \in TableNames
    /\ store.ready /\ ~InFlight(t) /\ t \in callers /\ left > 0
       => CanStartCalls(t)
    /\ task[t].op \in {"set_state", "get_state", "set_data", "get_data",
                       "update_data"}
       => store.ready /\ (InFlight(t) \/ task[t].pc = "done")

\* the bootstrap failed (there is no table), and a set_state made afterwards
\* holds a session
C14_Witness ==
  \E t \in Tasks :
    /\ store.ready
    /\ ~tableExists
    /\ task[t].op = "set_state"
    /\ task[t].pc = "prepare"
    /\ t \in held

\* the codec mode __init__ was asked for, and the mode the claim gives it
Requested(t) == task[t].arg.s
ModeFor(m) == IF m = "pickle" THEN "pickle" ELSE "json"

\* C15: once __init__ has set it, the serializing method is "pickle" if that
\* was requested and "json" for "json" and for any other value, and no step
\* of the bootstrap, of a public operation or of a failure changes the
\* serializing method or the table name afterwards.
C15_ModeFixed ==
  /\ [](/\ store.serializing_method \in {"unset", "json", "pickle"}
        /\ store.ready => store.serializing_method \in {"json", "pickle"}
        /\ \A t \in Tasks :
             task[t].op = "__init__"
             => store.serializing_method = ModeFor(Requested(t)))
  /\ [][store.serializing_method # "unset"
        => /\ store'.serializing_method = store.serializing_method
           /\ store'.table_name = store.table_name]_vars

\* "yaml" was requested, the bootstrap failed, and the mode is "json"
C15_Witness ==
  \E t \in Tasks :
    /\ Done(t, "__init__")
    /\ Requested(t) = "yaml"
    /\ task[t].failed
    /\ task[t].fault = "fatal"
    /\ store.serializing_method = "json"
    /\ store.table_name = "fsm"

\* the statement of caller t, applied to table tbl
Applied(t, tbl) == Apply(task[t].query, task[t].params, tbl)

\* C16: every statement in flight is a read or an upsert of fixed values, so
\* that applying it twice gives the table that applying it once gives; the
\* retry loop executes the same statement with the same parameters; and the
\* execute of an attempt made after an attempt of the same executor call was
\* applied leaves the table as that earlier attempt left it.
C16_RetriesIdempotent ==
  /\ [](\A t \in Tasks :
          InFlight(t) /\ task[t].op # "__init__" =>
            /\ task[t].query \in {"upsert_state", "upsert_data",
                                  "select_state", "select_data"}
            /\ Applied(t, Applied(t, table)) = Applied(t, table))
  /\ [][\A t \in Tasks :
          /\ InFlight(t) /\ task'[t].attempt = task[t].attempt + 1
             => /\ task'[t].query = task[t].query
                /\ task'[t].params = task[t].params
          /\ Executes(t) /\ task[t].applied => table' = table]_vars

\* a set_data whose first execute was applied and answered with a retryable
\* fault executed again and returned: the row holds its payload once
C16_Witness ==
  \E t \in Tasks :
    /\ Clean(t, "set_data")
    /\ task[t].applied
    /\ task[t].attempt >= 1
    /\ task[t].pre # NoRow
    /\ DataCol(task[t].key) = _ser(store.serializing_method, task[t].arg)
    /\ DataCol(task[t].key) # task[t].pre.data

\* C17: in every attempt the steps come in the order checkout, prepare,
\* execute: a caller at prepare or at execute holds a session, prepare is
\* entered from checkout only and execute from prepare only (the CREATE
\* TABLE of the bootstrap has no prepare); a caller has at
\* most one transaction, open only while it is at execute, and the execute
\* step that succeeds commits the statement in that same step.
C17_AttemptOrder ==
  /\ [](\A t \in Tasks : task[t].pc \in {"prepare", "execute"} => t \in held)
  /\ [][\A t \in Tasks :
          /\ task'[t].pc # task[t].pc =>
               /\ task'[t].pc = "prepare" => task[t].pc = "checkout"
               /\ task'[t].pc = "execute" =>
                    \/ task[t].pc = "prepare"
                    \/ task[t].pc = "checkout" /\ task[t].op = "__init__"
               /\ task[t].pc = "checkout" /\ InFlight(t)' =>
                    task'[t].pc = IF task[t].op = "__init__"
                                  THEN "execute" ELSE "prepare"
          /\ Executes(t) =>
               /\ task'[t].pc # "execute"
               /\ t \notin held'
               /\ table' \in {table, Applied(t, table)}
               /\ task'[t].pc = "done" /\ ~task'[t].failed
                  => table' = Applied(t, table)]_vars

\* one caller is at execute of a second attempt, holding the session, while
\* the other waits at checkout
C17_Witness ==
  \E t \in Tasks, u \in Tasks :
    /\ task[t].pc = "execute"
    /\ task[t].attempt >= 1
    /\ task[t].query = "upsert_data"
    /\ held = {t}
    /\ task[u].pc = "checkout"

\* the callers with an attempt under way
AttemptsInFlight == {t \in Tasks : InFlight(t)}

\* C18: a session is held only by a caller whose attempt is past its
\* checkout, so never more sessions are held than attempts are in flight and
\* none once every call has returned; and every step that ends an attempt
\* (by success, by a fault, by a checkout timeout, into a retry or into the
\* return) leaves its caller without a session.
C18_NoSessionLeak ==
  /\ [](/\ \A t \in held : task[t].pc \in {"prepare", "execute"}
        /\ Cardinality(held) <= Cardinality(AttemptsInFlight)
        /\ Cardinality(held) <= PoolSize
        /\ AttemptsInFlight = {} => held = {})
  /\ [][\A t \in Tasks :
          /\ InFlight(t)
          /\ task'[t] # task[t]
          /\ \/ task'[t].pc \in {"checkout", "done"}
             \/ task'[t].attempt # task[t].attempt
             \/ task'[t].phase # task[t].phase
          => t \notin held']_vars

\* both callers have returned from calls that failed after a retry, one of
\* them at its execute, and no session is held
C18_Witness ==
  \E t \in Tasks, u \in Tasks :
    /\ t # u
    /\ task[t].pc = "done" /\ task[t].failed /\ task[t].attempt >= 1
    /\ task[t].applied
    /\ task[u].pc = "done" /\ task[u].failed /\ task[u].attempt >= 1
    /\ held = {}

\* every top-level key of mapping c is in mapping d with the same value
KeepsKeys(c, d) ==
  \A x \in DOMAIN c.items : x \in DOMAIN d.items /\ d.items[x] = c.items[x]

\* C19 (as claimed): a call in which the backend failed and committed nothing
\* of the failed statement leaves the row of its key as it was when the call
\* began; and an update_data(k, p) whose read failed leaves every top-level
\* key that was stored for k in place with its value.
C19_FailureKeepsRecord ==
  \A t \in Tasks :
    task[t].pc = "done" /\ task[t].failed /\ ~task[t].applied =>
      /\ OneQuery(t) => RowOf(task[t].key) = task[t].pre
      /\ task[t].op = "update_data" /\ task[t].rfailed =>
           KeepsKeys(StoredMapping(task[t].pre),
                     StoredMapping(RowOf(task[t].key)))

\* C20 (as claimed): when update_data(k, p) returns, with no other writer on
\* k, the data column of k holds the encoding of the mapping it returns,
\* also when the write step failed.
C20_ReturnsWhatIsStored ==
  \A t \in Tasks :
    Done(t, "update_data") /\ task[t].exc = "none" =>
      /\ DataCol(task[t].key).ty = "jsontext"
      /\ DataCol(task[t].key).doc = ToJson(task[t].ret)

====
